---------------------------- MODULE Spec2Model ----------------------------
(***************************************************************************)
(* Model of scripts/create_2025_forecast.py: a single pass over one table  *)
(* (load, clean, year-gap report, filter to 2024, shift dates to 2025,     *)
(* scale volumes by a random factor, sort, write, summarise).              *)
(*                                                                         *)
(* Encoding.  A spreadsheet cell is a record [k, v]: k is the kind of the  *)
(* value and v an integer payload.  Dates are the integers yyyymmdd.       *)
(* Volumes are integers (oz); a factor is an integer number of thousandths *)
(* (0.95 is 950, 1.15 is 1150) and Volume_2025 is kept in thousandths of   *)
(* an oz, so that the product volume * factor is exact.                    *)
(***************************************************************************)
EXTENDS Integers, Sequences, FiniteSets

-----------------------------------------------------------------------------
(* Bounds of the model *)

\* longest sheet (number of data rows) the input workbook may hold
MaxRows == 2

\* number of times the program is run on the same file system
MaxRuns == 2

-----------------------------------------------------------------------------
(* Configuration constants of the script *)

SHEET_NAME == "Deposit Transactions"
alt_sheet_name == "Deposit_Transactions"
DATE_COL == "Deposit Date"
DEPOT_COL == "Depo"
VOLUME_COL == "Volume (oz)"
DEPOSIT_ID_COL == "Deposit ID"

\* np.random.uniform(0.95, 1.15, ...): low and high, in thousandths
Low == 950
High == 1150

BaseYear == 2024
PriorYear == 2023
ForecastYear == 2025

-----------------------------------------------------------------------------
(* Cells *)

NA == [k |-> "na", v |-> 0]              \* empty cell: NaN / NaT / None
Absent == [k |-> "absent", v |-> 0]      \* the table has no such column
Num(n) == [k |-> "num", v |-> n]         \* numeric cell / float64 value
Inf == [k |-> "inf", v |-> 1]            \* float64 +inf
Txt(n) == [k |-> "txt", v |-> n]         \* text that spells the number or date n
InfTxt == [k |-> "inftxt", v |-> 0]      \* the text "inf"
Junk == [k |-> "junk", v |-> 0]          \* text that spells neither
Ts(d) == [k |-> "ts", v |-> d]           \* date cell / Timestamp yyyymmdd
Depot(n) == [k |-> "depot", v |-> n]     \* depot identifier

isna(c) == c.k = "na"

YearOf(d) == d \div 10000
MonthOf(d) == (d \div 100) % 100
DayOf(d) == d % 100

IsLeap(y) == (y % 4 = 0 /\ y % 100 # 0) \/ y % 400 = 0

DaysIn(y, m) ==
    IF m \in {4, 6, 9, 11} THEN 30
    ELSE IF m = 2 THEN (IF IsLeap(y) THEN 29 ELSE 28)
    ELSE 31

\* pd.Timestamp(y, m, d): the date, or NA standing for the ValueError raised
\* for a day the month does not have
Timestamp(y, m, d) ==
    IF m \in 1..12 /\ d >= 1 /\ d <= DaysIn(y, m)
    THEN Ts(y * 10000 + m * 100 + d)
    ELSE NA

\* pd.to_datetime(x, errors='coerce') on one cell
to_datetime(c) ==
    IF c.k = "ts" THEN c
    ELSE IF c.k = "txt" THEN Timestamp(YearOf(c.v), MonthOf(c.v), DayOf(c.v))
    ELSE NA

\* pd.to_numeric(x, errors='coerce') on one cell: NA stands for NaN
to_numeric(c) ==
    IF c.k = "num" THEN c
    ELSE IF c.k = "txt" THEN Num(c.v)
    ELSE IF c.k = "inftxt" THEN Inf
    ELSE NA

fillna0(c) == IF isna(c) THEN Num(0) ELSE c

\* float product of a volume and a factor (result in thousandths)
Mul(c, f) == IF c.k = "num" THEN Num(c.v * f) ELSE c

-----------------------------------------------------------------------------
(* Input workbooks *)

AllCols == {DEPOSIT_ID_COL, DATE_COL, DEPOT_COL, VOLUME_COL}

Row(i, d, p, v) == [id |-> i, date |-> d, depot |-> p, vol |-> v]

\* the rows a sheet is made of
RowPool ==
    { Row(Num(1), Ts(20240301), Depot(1), Num(2)),
      Row(Num(1), Ts(20240301), Depot(1), NA),
      Row(Num(2), Ts(20240301), Depot(1), Num(-1)),
      Row(NA,     Ts(20240301), Depot(1), InfTxt),
      Row(Num(1), Ts(20240301), Depot(2), Txt(3)),
      Row(Num(2), Ts(20240229), Depot(1), Num(2)),
      Row(Num(2), Txt(20240228), Depot(2), Junk),
      Row(Num(1), Ts(20230301), Depot(2), Num(2)),
      Row(Num(1), NA,           Depot(1), Num(2)),
      Row(Num(2), Junk,         Depot(2), Num(2)),
      Row(Num(1), Ts(20240228), NA,       Num(2)) }

\* a row as it reads in a table that has only the columns cols
Project(r, cols) ==
    [id    |-> IF DEPOSIT_ID_COL \in cols THEN r.id ELSE Absent,
     date  |-> IF DATE_COL \in cols THEN r.date ELSE Absent,
     depot |-> IF DEPOT_COL \in cols THEN r.depot ELSE Absent,
     vol   |-> IF VOLUME_COL \in cols THEN r.vol ELSE Absent]

SeqsUpTo(S, n) == UNION { [1..k -> S] : k \in 0..n }

\* read_excel gives the rows a RangeIndex: idx is the row's index label
Indexed(rows) == [i \in 1..Len(rows) |-> [idx |-> i, id |-> rows[i].id,
                    date |-> rows[i].date, depot |-> rows[i].depot,
                    vol |-> rows[i].vol]]

-----------------------------------------------------------------------------
(* The file system and the process *)

Tables(cols) ==
    { [i \in 1..Len(s) |-> Project(s[i], cols)] : s \in SeqsUpTo(RowPool, MaxRows) }

\* a workbook holds one sheet, named sheet, whose table has the columns cols
Workbooks ==
    UNION { { [kind |-> "workbook", sheet |-> n, cols |-> c, rows |-> t] :
                n \in {SHEET_NAME, alt_sheet_name}, t \in Tables(c) } :
            c \in SUBSET AllCols }
    \cup { [kind |-> "workbook", sheet |-> "Sheet1", cols |-> AllCols, rows |-> <<>>] }

NoWorkbook ==
    { [kind |-> k, sheet |-> "", cols |-> {}, rows |-> <<>>] :
        k \in {"missing", "unreadable"} }

Files == Workbooks \cup NoWorkbook

NoFile == [written |-> FALSE, has_id |-> FALSE, rows |-> <<>>]

VARIABLES
    file,            \* DATA_DIR / INPUT_FILE on disk
    out_dir,         \* whether OUTPUT_DIR exists
    out_file,        \* OUTPUT_DIR / OUTPUT_FILE on disk
    prev_file,       \* out_file as the previous run left it
    run,             \* number of the current run of the script
    pc,              \* position of the current run in main()
    exit_code,       \* exit status of the process once it has ended
    exc,             \* the exception that ended the process ("" if none)
    alt_reads,       \* number of read_excel calls with alt_sheet_name
    rng,             \* state of numpy's global generator
    stream,          \* the factors the generator seeded with 42 yields, as far as drawn
    df,              \* the loaded table
    printed_missing, \* the columns line 79 printed as missing
    has_deposit_id,
    work,
    dropped_rows,    \* the number line 100 printed (0: nothing printed)
    missing_depots,
    df_2024,
    forecast,
    output_df,
    wrote            \* whether this run reached to_csv

vars == <<file, out_dir, out_file, prev_file, run, pc, exit_code, exc, alt_reads,
          rng, stream, df, printed_missing, has_deposit_id, work, dropped_rows,
          missing_depots, df_2024, forecast, output_df, wrote>>

fs == <<file, out_dir, out_file, prev_file>>
tables == <<df, has_deposit_id, work, dropped_rows, missing_depots, df_2024,
            forecast, output_df>>

Unseeded == [seeded |-> FALSE, pos |-> 0]

\* a fresh python process before the module body runs
Fresh ==
    /\ pc = "import"
    /\ exit_code = -1
    /\ exc = ""
    /\ alt_reads = 0
    /\ rng = Unseeded
    /\ df = [cols |-> {}, rows |-> <<>>]
    /\ printed_missing = {}
    /\ has_deposit_id = FALSE
    /\ work = <<>>
    /\ dropped_rows = 0
    /\ missing_depots = {}
    /\ df_2024 = <<>>
    /\ forecast = <<>>
    /\ output_df = <<>>
    /\ wrote = FALSE

Init ==
    /\ file \in Files
    /\ out_dir = FALSE
    /\ out_file = NoFile
    /\ prev_file = NoFile
    /\ run = 1
    /\ stream = <<>>
    /\ Fresh

\* mutant: the seeding of line 20 left out
SeedSkipped == [seeded |-> FALSE, pos |-> 0]

\* np.random.seed(42)
Seeded == [seeded |-> TRUE, pos |-> 0]

\* module body, lines 15-40: imports, seeding, configuration
Import ==
    /\ pc = "import"
    /\ rng' = Seeded
    /\ pc' = "load"
    /\ UNCHANGED <<fs, run, exit_code, exc, alt_reads, stream, printed_missing,
                   tables, wrote>>

\* an uncaught exception e leaves main(): traceback, exit status 1
Raise(e) ==
    /\ pc' = "crashed"
    /\ exc' = e
    /\ exit_code' = 1

\* pd.read_excel(input_path, sheet_name=name): the exception raised, "" if none
read_excel_error(f, name) ==
    IF f.kind = "missing" THEN "FileNotFoundError"
    ELSE IF f.kind = "unreadable" THEN "ValueError"
    ELSE IF f.sheet # name THEN "ValueError"
    ELSE ""

read_excel(f) == [cols |-> f.cols, rows |-> Indexed(f.rows)]

\* mutant: a bare except at line 57
CaughtAny(e) == e # ""

\* whether the except clause of line 57 catches the exception e
CaughtAtLine57(e) == e = "ValueError"

\* main(), lines 51-68
Load ==
    /\ pc = "load"
    /\ LET e1 == read_excel_error(file, SHEET_NAME)
           e2 == read_excel_error(file, alt_sheet_name)
       IN  IF e1 = ""
           THEN /\ df' = read_excel(file)
                /\ pc' = "clean"
                /\ UNCHANGED <<alt_reads, exc, exit_code>>
           ELSE IF CaughtAtLine57(e1)
           THEN /\ alt_reads' = alt_reads + 1
                /\ IF e2 = ""
                   THEN /\ df' = read_excel(file)
                        /\ pc' = "clean"
                        /\ UNCHANGED <<exc, exit_code>>
                   ELSE /\ Raise(e2)
                        /\ UNCHANGED df
           ELSE /\ Raise(e1)
                /\ UNCHANGED <<alt_reads, df>>
    /\ UNCHANGED <<fs, run, rng, stream, printed_missing, has_deposit_id, work,
                   dropped_rows, missing_depots, df_2024, forecast, output_df, wrote>>

\* mutant: the deposit-id column listed as required
required_cols_with_id == {DATE_COL, DEPOT_COL, VOLUME_COL, DEPOSIT_ID_COL}

required_cols == {DATE_COL, DEPOT_COL, VOLUME_COL}

missing_cols(t) == { c \in required_cols : c \notin t.cols }

\* work.dropna(subset=[DATE_COL, DEPOT_COL]), line 97
dropna_date_depot(rows) ==
    SelectSeq(rows, LAMBDA r : ~isna(r.date) /\ ~isna(r.depot))

\* lines 103-104: coerce the dates, drop the rows whose date did not parse
coerce_dates(rows) ==
    SelectSeq([i \in 1..Len(rows) |-> [rows[i] EXCEPT !.date = to_datetime(@)]],
              LAMBDA r : ~isna(r.date))

\* mutant: line 107 without fillna(0)
coerce_volumes_no_fillna(rows) ==
    [i \in 1..Len(rows) |-> [rows[i] EXCEPT !.vol = to_numeric(@)]]

\* line 107
coerce_volumes(rows) ==
    [i \in 1..Len(rows) |-> [rows[i] EXCEPT !.vol = fillna0(to_numeric(@))]]

\* mutant: the count taken after the unparseable dates are dropped too
count_dropped_late(rows) == Len(rows) - Len(coerce_dates(dropna_date_depot(rows)))

\* the number of rows line 98 computes and line 100 prints
count_dropped(rows) == Len(rows) - Len(dropna_date_depot(rows))

\* lines 93-107
clean(rows) == coerce_volumes(coerce_dates(dropna_date_depot(rows)))

\* work['Year'], line 110
Year(r) == YearOf(r.date.v)

\* main(), lines 70-113
Clean ==
    /\ pc = "clean"
    /\ IF missing_cols(df) # {}
       THEN /\ printed_missing' = missing_cols(df)
            /\ pc' = "returned"
            /\ exit_code' = 0
            /\ UNCHANGED <<has_deposit_id, work, dropped_rows>>
       ELSE /\ has_deposit_id' = (DEPOSIT_ID_COL \in df.cols)
            /\ dropped_rows' = count_dropped(df.rows)
            /\ work' = clean(df.rows)
            /\ pc' = "gap"
            /\ UNCHANGED <<printed_missing, exit_code>>
    /\ UNCHANGED <<fs, run, exc, alt_reads, rng, stream, df, missing_depots,
                   df_2024, forecast, output_df, wrote>>

depots_of(rows, y) == { rows[i].depot : i \in { j \in 1..Len(rows) : Year(rows[j]) = y } }

\* mutant: the set difference taken the other way round
gap_reversed(rows) == depots_of(rows, BaseYear) \ depots_of(rows, PriorYear)

\* lines 118-120
gap(rows) == depots_of(rows, PriorYear) \ depots_of(rows, BaseYear)

\* main(), lines 115-128
Gap ==
    /\ pc = "gap"
    /\ missing_depots' = gap(work)
    /\ pc' = "filter"
    /\ UNCHANGED <<fs, run, exit_code, exc, alt_reads, rng, stream, df,
                   printed_missing, has_deposit_id, work, dropped_rows, df_2024,
                   forecast, output_df, wrote>>

\* line 132
filter_2024(rows) == SelectSeq(rows, LAMBDA r : Year(r) = BaseYear)

\* main(), lines 130-137
Filter ==
    /\ pc = "filter"
    /\ df_2024' = filter_2024(work)
    /\ pc' = "transform"
    /\ UNCHANGED <<fs, run, exit_code, exc, alt_reads, rng, stream, df,
                   printed_missing, has_deposit_id, work, dropped_rows,
                   missing_depots, forecast, output_df, wrote>>

\* mutant: Feb 29 moved to Feb 28 instead of dropped
shift_feb29_to_feb28(date_val) ==
    IF isna(date_val) THEN NA
    ELSE IF MonthOf(date_val.v) = 2 /\ DayOf(date_val.v) = 29
    THEN Timestamp(ForecastYear, 2, 28)
    ELSE Timestamp(ForecastYear, MonthOf(date_val.v), DayOf(date_val.v))

\* mutant: the date moved on by 365 days, which in the leap year 2024 lands a
\* day early for the dates before Feb 29
shift_by_365_days(date_val) ==
    IF isna(date_val) THEN NA
    ELSE IF MonthOf(date_val.v) = 2 /\ DayOf(date_val.v) = 29 THEN NA
    ELSE IF MonthOf(date_val.v) <= 2 /\ DayOf(date_val.v) > 1
    THEN Timestamp(ForecastYear, MonthOf(date_val.v), DayOf(date_val.v) - 1)
    ELSE Timestamp(ForecastYear, MonthOf(date_val.v), DayOf(date_val.v))

\* lines 145-156
shift_to_2025(date_val) ==
    IF isna(date_val) THEN NA
    ELSE IF MonthOf(date_val.v) = 2 /\ DayOf(date_val.v) = 29 THEN NA
    ELSE Timestamp(ForecastYear, MonthOf(date_val.v), DayOf(date_val.v))

\* lines 158-162: the Date_2025 column, then dropna on it
shift_rows(rows) ==
    SelectSeq([i \in 1..Len(rows) |->
                 [idx |-> rows[i].idx, id |-> rows[i].id, date |-> rows[i].date,
                  depot |-> rows[i].depot, vol |-> rows[i].vol,
                  date_2025 |-> shift_to_2025(rows[i].date)]],
              LAMBDA r : ~isna(r.date_2025))

\* mutant: the range taken as 0.85 .. 1.15
FactorSamplesWide == {Low - 100, High - 1}

\* the values np.random.uniform(0.95, 1.15) is sampled at: both ends of [low, high)
FactorSamples == {Low, High - 1}

\* line 169: the k-th row's volume times the k-th value of the array
scale(rows, factors) ==
    [i \in 1..Len(rows) |->
        [idx |-> rows[i].idx, id |-> rows[i].id, date |-> rows[i].date,
         depot |-> rows[i].depot, vol |-> rows[i].vol,
         date_2025 |-> rows[i].date_2025,
         vol_2025 |-> Mul(rows[i].vol, factors[i])]]

\* the generator g yields the array a next: a seeded generator repeats the stream
\* of its seed, an unseeded one yields anything
Yields(g, a) ==
    g.seeded => \A k \in 1..Len(a) :
                   g.pos + k \in DOMAIN stream => a[k] = stream[g.pos + k]

\* main(), lines 139-174
Transform ==
    /\ pc = "transform"
    /\ LET shifted == shift_rows(df_2024)
           n == Len(shifted)
       IN  \E a \in [1..n -> FactorSamples] :
              /\ Yields(rng, a)
              /\ forecast' = scale(shifted, a)
              /\ rng' = [rng EXCEPT !.pos = @ + n]
              /\ stream' = IF rng.seeded
                            THEN [k \in 1..(IF rng.pos + n > Len(stream)
                                            THEN rng.pos + n ELSE Len(stream)) |->
                                    IF k <= Len(stream) THEN stream[k]
                                    ELSE a[k - rng.pos]]
                            ELSE stream
    /\ pc' = "assemble"
    /\ UNCHANGED <<fs, run, exit_code, exc, alt_reads, df, printed_missing,
                   has_deposit_id, work, dropped_rows, missing_depots, df_2024,
                   output_df, wrote>>

\* order of two cells of one sort column, ascending with NaN last
\* (sort_values defaults: ascending=True, na_position='last')
CellLess(a, b) == IF isna(a) THEN FALSE ELSE IF isna(b) THEN TRUE ELSE a.v < b.v

\* lines 200-202: the sort columns, in order, of a row
sort_cols(r, has_id) ==
    IF has_id THEN <<r.date_2025, r.depot, r.id>> ELSE <<r.date_2025, r.depot>>

\* lexicographic order on the sort columns
KeyLess(a, b, has_id) ==
    LET ka == sort_cols(a, has_id)
        kb == sort_cols(b, has_id)
    IN  \E i \in 1..Len(ka) :
            /\ CellLess(ka[i], kb[i])
            /\ \A j \in 1..(i - 1) : ka[j] = kb[j]

\* mutant: r put in front of the rows of equal key (an unstable sort)
InsertSortedFront(s, r, has_id) ==
    LET after == { i \in 1..Len(s) : ~KeyLess(s[i], r, has_id) }
        at == IF after = {} THEN Len(s) + 1
              ELSE CHOOSE i \in after : \A j \in after : i <= j
    IN  SubSeq(s, 1, at - 1) \o <<r>> \o SubSeq(s, at, Len(s))

\* r put into the sorted sequence s behind every row that does not sort after it
InsertSorted(s, r, has_id) ==
    LET after == { i \in 1..Len(s) : KeyLess(r, s[i], has_id) }
        at == IF after = {} THEN Len(s) + 1
              ELSE CHOOSE i \in after : \A j \in after : i <= j
    IN  SubSeq(s, 1, at - 1) \o <<r>> \o SubSeq(s, at, Len(s))

RECURSIVE sort_values(_, _)
\* line 203: DataFrame.sort_values on several columns is a stable lexsort
sort_values(rows, has_id) ==
    IF rows = <<>> THEN <<>>
    ELSE InsertSorted(sort_values(SubSeq(rows, 1, Len(rows) - 1), has_id),
                      rows[Len(rows)], has_id)

\* lines 181-197: the output columns of a forecast row (the index label is kept
\* by DataFrame(output_dict) and dropped by reset_index)
output_row(r, has_id) ==
    [id |-> IF has_id THEN r.id ELSE Absent,
     Date_2025 |-> r.date_2025,
     depot |-> r.depot,
     Volume_2025 |-> r.vol_2025,
     Date_2024_Original |-> r.date,
     Volume_2024_Original |-> r.vol]

\* lines 181-203
assemble(rows, has_id) ==
    LET sorted == sort_values(rows, has_id)
    IN  [i \in 1..Len(sorted) |-> output_row(sorted[i], has_id)]

\* main(), lines 176-205
Assemble ==
    /\ pc = "assemble"
    /\ output_df' = assemble(forecast, has_deposit_id)
    /\ pc' = "write"
    /\ UNCHANGED <<fs, run, exit_code, exc, alt_reads, rng, stream, df,
                   printed_missing, has_deposit_id, work, dropped_rows,
                   missing_depots, df_2024, forecast, wrote>>

\* main(), lines 207-212: mkdir(parents=True, exist_ok=True), to_csv
Write ==
    /\ pc = "write"
    /\ out_dir' = TRUE
    /\ out_file' = [written |-> TRUE, has_id |-> has_deposit_id, rows |-> output_df]
    /\ wrote' = TRUE
    /\ pc' = "summary"
    /\ UNCHANGED <<file, prev_file, run, exit_code, exc, alt_reads, rng, stream,
                   printed_missing, tables>>

\* main(), lines 214-238: the min() of an empty date column has no .date():
\* NaT.date() raises ValueError at line 222; at line 228 the column of an
\* empty output is all None and its min() is a float nan (AttributeError)
Summary ==
    /\ pc = "summary"
    /\ IF df_2024 = <<>> THEN Raise("ValueError")
       ELSE IF output_df = <<>> THEN Raise("AttributeError")
       ELSE /\ pc' = "done"
            /\ exit_code' = 0
            /\ UNCHANGED exc
    /\ UNCHANGED <<fs, run, alt_reads, rng, stream, printed_missing, tables, wrote>>

Ended == pc \in {"done", "returned", "crashed"}

\* the script is started again, the file system as the last run left it
Rerun ==
    /\ Ended
    /\ run < MaxRuns
    /\ run' = run + 1
    /\ prev_file' = out_file
    /\ pc' = "import"
    /\ exit_code' = -1
    /\ exc' = ""
    /\ alt_reads' = 0
    /\ rng' = Unseeded
    /\ df' = [cols |-> {}, rows |-> <<>>]
    /\ printed_missing' = {}
    /\ has_deposit_id' = FALSE
    /\ work' = <<>>
    /\ dropped_rows' = 0
    /\ missing_depots' = {}
    /\ df_2024' = <<>>
    /\ forecast' = <<>>
    /\ output_df' = <<>>
    /\ wrote' = FALSE
    /\ UNCHANGED <<file, out_dir, out_file, stream>>

Next ==
    \/ Import
    \/ Load
    \/ Clean
    \/ Gap
    \/ Filter
    \/ Transform
    \/ Assemble
    \/ Write
    \/ Summary

\* one run of the script
Spec == Init /\ [][Next]_vars

NextRerun == Next \/ Rerun

\* the script run MaxRuns times on an unchanged input file
SpecRerun == Init /\ [][NextRerun]_vars

-----------------------------------------------------------------------------
(* Positions of a run, for the properties below *)

\* a crash after the load is a crash of the summary, which follows to_csv
Loaded == pc \notin {"import", "load"} /\ (pc = "crashed" => wrote)
AfterClean == Loaded /\ pc \notin {"clean", "returned"}
AfterGap == AfterClean /\ pc # "gap"
AfterTransform == AfterGap /\ pc \notin {"filter", "transform"}
AfterAssemble == AfterTransform /\ pc # "assemble"

Indices(seq) == 1..Len(seq)

IsFeb29(d) == MonthOf(d) = 2 /\ DayOf(d) = 29

\* the cleaned rows of the base year, and those of them dated Feb 29
BaseRows == { i \in Indices(work) : YearOf(work[i].date.v) = BaseYear }
LeapRows == { i \in BaseRows : IsFeb29(work[i].date.v) }

-----------------------------------------------------------------------------
(* C1 *)

\* C1: the forecast rows are in one-to-one correspondence with the base-year
\* rows not dated Feb 29: every forecast row derives from exactly one base-year
\* row, every base-year row not dated Feb 29 yields exactly one forecast row,
\* and the forecast holds as many rows as the base year less its Feb 29 rows.
C1_OneToOne ==
    AfterTransform =>
        /\ \A k \in Indices(forecast) :
              /\ Cardinality({ i \in BaseRows : work[i].idx = forecast[k].idx }) = 1
              /\ \A i \in BaseRows : work[i].idx = forecast[k].idx =>
                    /\ i \notin LeapRows
                    /\ forecast[k].date = work[i].date
                    /\ forecast[k].depot = work[i].depot
                    /\ forecast[k].id = work[i].id
        /\ \A i \in BaseRows \ LeapRows :
              Cardinality({ k \in Indices(forecast) : forecast[k].idx = work[i].idx }) = 1
        /\ Len(forecast) = Cardinality(BaseRows) - Cardinality(LeapRows)
        /\ Len(df_2024) = Cardinality(BaseRows)
        /\ (AfterAssemble => Len(output_df) = Len(forecast))

\* a run whose base year holds a Feb 29 row and another row, written out
C1_Witness ==
    /\ pc = "done"
    /\ LeapRows # {}
    /\ BaseRows \ LeapRows # {}
    /\ Len(output_df) = 1

-----------------------------------------------------------------------------
(* C2 *)

\* C2: every row of the forecast output is dated in 2025, on the month and day
\* of its original 2024 date, and none is dated Feb 29.
C2_ShiftedDates ==
    AfterAssemble =>
        \A k \in Indices(output_df) :
            LET new == output_df[k].Date_2025
                old == output_df[k].Date_2024_Original
            IN  /\ new.k = "ts"
                /\ old.k = "ts"
                /\ YearOf(old.v) = BaseYear
                /\ YearOf(new.v) = BaseYear + 1
                /\ MonthOf(new.v) = MonthOf(old.v)
                /\ DayOf(new.v) = DayOf(old.v)
                /\ ~IsFeb29(new.v)

\* an output with a row of Feb 28 and a row of Mar 1
C2_Witness ==
    /\ pc = "done"
    /\ \E k \in Indices(output_df) : output_df[k].Date_2025 = Ts(20250228)
    /\ \E k \in Indices(output_df) : output_df[k].Date_2025 = Ts(20250301)

-----------------------------------------------------------------------------
(* C3 *)

\* forecast / original lies in [0.95, 1.15]; nan (inf / inf) compares false
RatioInRange(fv, ov) ==
    /\ fv.k = "num"
    /\ ov.k = "num"
    /\ IF ov.v > 0
       THEN Low * ov.v <= fv.v /\ fv.v <= High * ov.v
       ELSE High * ov.v <= fv.v /\ fv.v <= Low * ov.v

\* the float product of ov and f is fv
IsProduct(fv, ov, f) ==
    IF ov.k = "num" THEN fv.k = "num" /\ fv.v = ov.v * f ELSE fv = ov

\* every forecast row carries the cleaned volume of the base-year row it is from
VolumeCarried ==
    \A k \in Indices(forecast) : \A i \in BaseRows :
        work[i].idx = forecast[k].idx => forecast[k].vol = work[i].vol

-----------------------------------------------------------------------------
(* C4 *)

\* C4 as stated: in the cleaned table depot and date are non-null and the
\* volume is a finite number, non-negative or zero.
C4_VolumeFiniteNonNegative ==
    AfterClean =>
        \A i \in Indices(work) :
            /\ ~isna(work[i].depot)
            /\ ~isna(work[i].date)
            /\ work[i].vol.k = "num"
            /\ work[i].vol.v >= 0

\* C4 amended: in the cleaned table depot and date are non-null and the volume
\* is a number, never NaN: 0 where the raw cell is empty or does not parse,
\* the raw number, negative ones included, where the raw cell holds a number,
\* and infinite where the raw cell spells inf.
C4_VolumeNumeric ==
    AfterClean =>
        \A i \in Indices(work) :
            LET raw == df.rows[work[i].idx].vol
            IN  /\ ~isna(work[i].depot)
                /\ work[i].date.k = "ts"
                /\ work[i].vol.k \in {"num", "inf"}
                /\ raw.k \in {"na", "junk"} => work[i].vol = Num(0)
                /\ raw.k = "num" => work[i].vol = raw
                /\ raw.k = "inftxt" => work[i].vol = Inf

\* a cleaned table with a volume filled with 0 and a negative volume
C4_Witness ==
    /\ AfterClean
    /\ \E i \in Indices(work) :
          df.rows[work[i].idx].vol.k \in {"na", "junk"} /\ work[i].vol = Num(0)
    /\ \E i \in Indices(work) : work[i].vol.k = "inf" \/ work[i].vol.v < 0

-----------------------------------------------------------------------------
(* C5 *)

\* the depots with at least one cleaned row in year y
DepotsIn(y) == { work[i].depot : i \in { j \in Indices(work) : YearOf(work[j].date.v) = y } }

\* C5: the reported gap set is the set of depots with a cleaned row in 2023
\* less the set of depots with a cleaned row in 2024; it is empty exactly when
\* every 2023 depot reappears in 2024; no depot of it is in the forecast output.
C5_GapSet ==
    AfterGap =>
        /\ \A d \in DepotsIn(BaseYear - 1) \cup DepotsIn(BaseYear) \cup missing_depots :
              d \in missing_depots <=>
                  (d \in DepotsIn(BaseYear - 1) /\ d \notin DepotsIn(BaseYear))
        /\ missing_depots = {} <=> DepotsIn(BaseYear - 1) \subseteq DepotsIn(BaseYear)
        /\ AfterAssemble =>
              \A k \in Indices(output_df) : output_df[k].depot \notin missing_depots

\* a finished run that reported a gap depot and wrote rows of another depot
C5_Witness ==
    /\ pc = "done"
    /\ missing_depots # {}
    /\ output_df # <<>>

-----------------------------------------------------------------------------
(* C6 *)

RequiredAbsent == {DATE_COL, DEPOT_COL, VOLUME_COL} \ df.cols

\* C6: when a required column is absent from the loaded table the run prints
\* the missing columns and halts: it creates no output directory and writes no
\* file; the absence of the deposit-id column alone does not halt the run.
C6_SchemaHalt ==
    Loaded /\ pc # "clean" =>
        /\ RequiredAbsent # {} =>
              /\ pc = "returned"
              /\ exit_code = 0
              /\ printed_missing = RequiredAbsent
              /\ ~wrote
              /\ ~out_dir
              /\ out_file = NoFile
        /\ RequiredAbsent = {} => pc # "returned"

\* a run on a table with rows and no volume column, halted
C6_Witness ==
    /\ pc = "returned"
    /\ printed_missing = {VOLUME_COL}
    /\ DEPOSIT_ID_COL \in df.cols
    /\ df.rows # <<>>

\* a run on a table without the deposit-id column only, which wrote its output
C6_WitnessOptional ==
    pc = "done" /\ DEPOSIT_ID_COL \notin df.cols /\ out_file.written

-----------------------------------------------------------------------------
(* C7 *)

\* the workbook cannot be loaded under either sheet name
LoadFails ==
    file.kind # "workbook" \/ file.sheet \notin {SHEET_NAME, alt_sheet_name}

\* the primary sheet name is not found in a readable workbook
PrimaryNotFound == file.kind = "workbook" /\ file.sheet # SHEET_NAME

\* C7 as stated: on load failure the program returns early (no non-zero exit)
\* without writing output; the fallback sheet name is tried exactly once and
\* only after the primary sheet name was not found.
C7_LoadFailureReturns ==
    pc \notin {"import", "load"} =>
        /\ LoadFails =>
              /\ pc = "returned"
              /\ exit_code = 0
              /\ ~wrote
              /\ out_file = NoFile
        /\ alt_reads <= 1
        /\ alt_reads = 1 => PrimaryNotFound

\* C7 amended: on load failure the run ends in an uncaught exception (exit
\* status 1) without creating the output directory or writing output; the
\* fallback sheet name is tried at most once, and exactly when the first read
\* raised ValueError (sheet not found, or a file that is no workbook); a
\* missing file raises FileNotFoundError and the fallback is not tried.
C7_LoadFailureRaises ==
    pc \notin {"import", "load"} =>
        /\ LoadFails =>
              /\ pc = "crashed"
              /\ exit_code = 1
              /\ exc = (IF file.kind = "missing" THEN "FileNotFoundError" ELSE "ValueError")
              /\ ~wrote
              /\ ~out_dir
              /\ out_file = NoFile
        /\ alt_reads <= 1
        /\ alt_reads = 1 <=> (PrimaryNotFound \/ file.kind = "unreadable")

\* a failed load that tried the fallback sheet name
C7_Witness ==
    /\ pc = "crashed"
    /\ LoadFails
    /\ alt_reads = 1
    /\ file.kind = "workbook"

-----------------------------------------------------------------------------
(* C8 *)

\* C8: a second run on the unchanged input writes the file the first run
\* wrote; in every run the k-th surviving base-year row, in input order, is
\* scaled by the k-th factor of the seeded stream.
C8_Reproducible ==
    /\ (run > 1 /\ wrote) => (prev_file.written /\ out_file = prev_file)
    /\ AfterTransform =>
          /\ Len(stream) = Len(forecast)
          /\ \A k \in Indices(forecast) :
                /\ IsProduct(forecast[k].vol_2025, forecast[k].vol, stream[k])
                /\ Cardinality({ i \in BaseRows \ LeapRows :
                                    work[i].idx <= forecast[k].idx }) = k

\* a second run that wrote two scaled rows, after a Feb 29 row was dropped
C8_Witness ==
    /\ run = 2
    /\ wrote
    /\ Len(out_file.rows) >= 1
    /\ LeapRows # {}
    /\ \E k \in Indices(forecast) : forecast[k].vol.k = "num" /\ forecast[k].vol.v # 0

-----------------------------------------------------------------------------
(* C9 *)

\* the key of an output row: forecast date, depot, deposit id if present
OutKey(r) ==
    IF DEPOSIT_ID_COL \in df.cols THEN <<r.Date_2025, r.depot, r.id>>
    ELSE <<r.Date_2025, r.depot>>

\* key a sorts before key b: ascending, an empty cell after every value
KeyBefore(a, b) ==
    \E i \in Indices(a) :
        /\ \A j \in 1..(i - 1) : a[j] = b[j]
        /\ a[i] # b[i]
        /\ isna(b[i]) \/ (~isna(a[i]) /\ a[i].v < b[i].v)

Bijections(n) == { p \in [1..n -> 1..n] : \A i, j \in 1..n : p[i] = p[j] => i = j }

\* C9: the written rows are the derived forecast rows, permuted into ascending
\* order of (forecast date, depot, deposit id if present), rows with equal keys
\* in their original order; the deposit-id column is in the output exactly
\* when it is in the input.
C9_StableSort ==
    AfterAssemble =>
        /\ Len(output_df) = Len(forecast)
        /\ \E p \in Bijections(Len(forecast)) :
              /\ \A k \in Indices(output_df) :
                    LET o == output_df[k]
                        r == forecast[p[k]]
                    IN  /\ o.Date_2025 = r.date_2025
                        /\ o.depot = r.depot
                        /\ o.Volume_2025 = r.vol_2025
                        /\ o.Date_2024_Original = r.date
                        /\ o.Volume_2024_Original = r.vol
                        /\ o.id = (IF DEPOSIT_ID_COL \in df.cols THEN r.id ELSE Absent)
              /\ \A k, l \in Indices(output_df) :
                    k < l =>
                        /\ ~KeyBefore(OutKey(output_df[l]), OutKey(output_df[k]))
                        /\ OutKey(output_df[k]) = OutKey(output_df[l]) => p[k] < p[l]
        /\ \A k \in Indices(output_df) :
              output_df[k].id # Absent <=> DEPOSIT_ID_COL \in df.cols
        /\ (pc \in {"summary", "done", "crashed"} =>
              out_file = [written |-> TRUE, has_id |-> DEPOSIT_ID_COL \in df.cols,
                          rows |-> output_df])

\* an output whose rows were reordered
C9_WitnessReordered ==
    /\ pc = "done"
    /\ DEPOSIT_ID_COL \in df.cols
    /\ \E k \in Indices(forecast) : output_df[k].id # forecast[k].id

\* an output with two rows of equal key that differ
C9_Witness ==
    /\ pc = "done"
    /\ \E k, l \in Indices(output_df) :
          /\ k < l
          /\ OutKey(output_df[k]) = OutKey(output_df[l])
          /\ output_df[k] # output_df[l]

-----------------------------------------------------------------------------
(* C10 *)

\* rows of the loaded table with an empty date or depot cell
EmptyKeyRows == { i \in Indices(df.rows) : isna(df.rows[i].date) \/ isna(df.rows[i].depot) }

\* rows of the loaded table whose date is text that is no date
BadDateRows ==
    { i \in Indices(df.rows) \ EmptyKeyRows : df.rows[i].date.k \notin {"ts", "txt"} }

\* C10 as stated: the reported dropped-row count covers every removed row,
\* unparseable dates included: it is the raw row count less the cleaned one.
C10_CountCoversAll ==
    AfterClean => dropped_rows = Len(df.rows) - Len(work)

\* C10 amended: the reported count is the number of rows with an empty date or
\* depot; rows with an unparseable date are removed without being counted, so
\* the raw row count less the cleaned one is the reported count plus the
\* number of rows with an unparseable date.
C10_CountEmptyOnly ==
    AfterClean =>
        /\ dropped_rows = Cardinality(EmptyKeyRows)
        /\ Len(df.rows) - Len(work) = dropped_rows + Cardinality(BadDateRows)
        /\ \A i \in Indices(work) : work[i].idx \notin EmptyKeyRows \cup BadDateRows

\* a cleaning that removed a row with an empty date and one with a bad date
C10_Witness ==
    /\ AfterClean
    /\ dropped_rows = 1
    /\ Cardinality(BadDateRows) = 1
    /\ work = <<>>

=============================================================================
